---- MODULE Spec2Model ----
(***************************************************************************)
(* Model of the integration test orchestrator                              *)
(*   src/integration-testing/scripts/run_integration_tests.py              *)
(* (src/scripts/run_integration_tests.py is the same scheduler and runner  *)
(* without structured logs).                                               *)
(*                                                                         *)
(* The main thread validates the environment, discovers the launchers,     *)
(* submits one future per launcher to a ThreadPoolExecutor, collects the   *)
(* outcomes through concurrent.futures.as_completed, cancels on fail-fast, *)
(* leaves the pool (shutdown(wait=True)), reports and exits.  Each worker  *)
(* thread runs run_integration_test for one launcher at a time; the child  *)
(* process and the wall clock are the environment.                         *)
(***************************************************************************)
EXTENDS Integers, Sequences, FiniteSets, TLC

\* ---------------------------------------------------------------- bounds
MaxUnits == 2          \* launchers discovered
MaxWorkers == 2        \* --workers
MaxLines == 2          \* lines a child writes
MaxExitCode == 1       \* exit codes 0..MaxExitCode
MaxTimeoutSec == 1     \* timeoutSec values 1..MaxTimeoutSec of a descriptor
MaxPatterns == 2       \* entries of successRegex of a descriptor
MaxClock == 1          \* seconds that pass while the log files are named
MaxFiles == 2          \* files of the tree find_integration_tests searches
MaxFilterLen == 2      \* characters of --filter
MaxResults == 3        \* outcomes given to generate_report
FloatBits == 5         \* significand bits of a floating-point number
MaxLineLen == 2        \* characters of a line of a response
MaxTextLines == 4      \* lines of the text given to extract_json_from_response
MaxResponseLines == 2  \* lines of the response of an analysis

\* ------------------------------------------------------ program constants
DefaultTimeoutSec == 300
SIGTERM == 15
SIGKILL == 9

AllUnits == 1..MaxUnits
ExitCodes == 0..MaxExitCode

\* A success pattern: "L1" is a regular expression that matches the first
\* line a child writes and nothing else it writes, "never" one that matches
\* nothing a child writes, "bad" a string re.compile rejects.
Patterns == {"L1", "never", "bad"}
PatternLists == UNION {[1..k -> Patterns] : k \in 0..MaxPatterns}

\* ExampleInfo.json of a unit: absent, not valid JSON, unreadable (open() or
\* the decoding of its bytes raises), or an object whose timeoutSec field is
\* absent (<<>>) or present (<<t>>, any JSON integer: nothing restricts it to
\* positive values) and whose successRegex is a list of patterns (empty when
\* the field is absent).
TimeoutValues == (0 - 1)..MaxTimeoutSec
Descriptors ==
    {[kind |-> k, timeoutSec |-> <<>>, successRegex |-> <<>>] :
        k \in {"absent", "invalid", "unreadable"}}
    \cup {[kind |-> "ok", timeoutSec |-> t, successRegex |-> ps] :
            t \in {<<>>} \cup {<<s>> : s \in TimeoutValues}, ps \in PatternLists}
NoDescriptor == [kind |-> "absent", timeoutSec |-> <<>>, successRegex |-> <<>>]

\* A launcher path <parent>/<module>/integration-tests/<file>.java found by
\* rglob("integration-tests/Run*.java"): `dir` is launcher.parent.name.
Parents == {"agents", "models"}
Modules == {"chat", "tools"}
Files == {"RunA", "RunB"}
Launchers == [parent : Parents, module : Modules, dir : {"integration-tests"},
              file : Files]

\* find_integration_tests returns distinct paths.
LauncherLists ==
    {f \in [AllUnits -> Launchers] : \A u, v \in AllUnits : u # v => f[u] # f[v]}
DefaultLaunchers == CHOOSE f \in LauncherLists : TRUE

\* module_name = f"{launcher.parent.parent.name}/{launcher.parent.name}", a
\* string kept as the sequence of its pieces.
module_name(l) == <<l.module, "/", l.dir>>

\* str.replace(old, new) on such a string.
Replace(str, old, new) == [i \in DOMAIN str |-> IF str[i] = old THEN new ELSE str[i]]

\* run_log_dir of a run started at second t0: logs/run-<t0> with
\* --structured-logs, None without.
get_log_directory(structured, t0) == IF structured THEN <<"run-", t0>> ELSE <<>>

\* log_file of launcher l when the Runner names it at second t.
log_file_path(l, rld, t) ==
    IF rld # <<>>
      THEN [dir |-> <<"logs", rld>>,
            name |-> Replace(module_name(l), "/", "_") \o <<".log">>]
      ELSE [dir |-> <<"logs">>,
            name |-> Replace(module_name(l), "/", "_") \o <<"_", t, ".log">>]

\* ------------------------------------------------------------ discovery

\* Strings are sequences of characters.  str.lower():
Lower(c) == IF c = "A" THEN "a" ELSE IF c = "R" THEN "r" ELSE c
lower(str) == [i \in DOMAIN str |-> Lower(str[i])]

\* needle in hay
IsSubstring(needle, hay) ==
    \E i \in 0..(Len(hay) - Len(needle)) :
        SubSeq(hay, i + 1, i + Len(needle)) = needle

\* A file of the tree below ".": the directories leading to its grandparent
\* (the module path, <<>> for "."), its parent directory and its own name.
DirNames == {<<"a">>, <<"A", "b">>, <<"r", "u", "n">>}
ModulePaths == {<<>>} \cup {<<d>> : d \in DirNames}
                     \cup {<<d, e>> : d \in {<<"a">>}, e \in DirNames}
ParentNames == {"integration-tests", "tests"}
FileNames == {<<"R", "u", "n", "A", ".java">>, <<"R", "u", "n", ".java">>,
              <<"A", "R", "u", "n", ".java">>, <<"R", "u", "n", "A", ".txt">>}
TreeFiles == [module : ModulePaths, parent : ParentNames, name : FileNames]
Trees == UNION {{t \in [1..k -> TreeFiles] :
                    \A i, j \in 1..k : i # j => t[i] # t[j]} : k \in 0..MaxFiles}

\* --filter: absent (<<>>) or a string (<<str>>), possibly empty.
FilterChars == {"a", "A", "b", "R", "/"}
Filters == {<<>>} \cup {<<str>> : str \in UNION {[1..k -> FilterChars] : k \in 0..MaxFilterLen}}

\* fnmatch of a file name against "Run*.java"
MatchesRunJava(name) ==
    /\ Len(name) >= 4
    /\ SubSeq(name, 1, 3) = <<"R", "u", "n">>
    /\ name[Len(name)] = ".java"

\* rglob("integration-tests/Run*.java"): the files of the tree that match, in
\* the order of the traversal.
rglob(t) ==
    SelectSeq(t, LAMBDA f : f.parent = "integration-tests" /\ MatchesRunJava(f.name))

\* str(launcher.parent.parent): the directories joined by "/", "." for none.
Join(path) ==
    IF path = <<>> THEN <<".">>
    ELSE IF Len(path) = 1 THEN path[1]
    ELSE path[1] \o <<"/">> \o path[2]
module_path(f) == Join(f.module)

\* The variant of the filter that looks at the launcher's whole path (the one
\* C21 is checked against).
PassesFilter_WholePath(f, flt) ==
    IsSubstring(lower(flt),
                lower(module_path(f) \o <<"/">> \o <<"integration-tests", "/">> \o f.name))

\* filter_pattern.lower() in module_path.lower()
PassesFilter(f, flt) == IsSubstring(lower(flt), lower(module_path(f)))

find_integration_tests(t, flt) ==
    IF flt # <<>> /\ flt[1] # <<>>
      THEN SelectSeq(rglob(t), LAMBDA f : PassesFilter(f, flt[1]))
      ELSE rglob(t)

\* re.search(pattern, output, re.DOTALL) on a log of `lines` lines.
Matches(p, lines) == p = "L1" /\ lines >= 1

\* A validation that only looks for the executor (the variant C16 is checked
\* against).
validate_environment_JBangOnly(jb, jv) == jb

\* validate_environment(): JBANG was found on the PATH and `java -version`
\* ran and returned 0.
JavaChecks == {"ok", "nonzero", "timeout", "notfound"}
validate_environment(jb, jv) == jb /\ jv = "ok"

\* timeout = config.get("timeoutSec", 300)
Timeout(d) == IF d.timeoutSec = <<>> THEN DefaultTimeoutSec ELSE d.timeoutSec[1]

\* The tuple run_integration_test returns: (launcher, success, message, time);
\* the message is kept as its format and its argument.
Outcome(ok, kind, arg) == [success |-> ok, kind |-> kind, arg |-> arg]
NoOutcome == Outcome(FALSE, "None", 0)

VARIABLES
    jbang,        \* shutil.which("jbang") found the executor
    java,         \* what `java -version` does
    envOK,        \* validate_environment() will return True
    n,            \* len(launchers): the units are 1..n, in submission order
    workers,      \* args.workers
    failFast,     \* args.fail_fast
    stream,       \* args.stream
    desc,         \* unit -> its ExampleInfo.json
    pc,           \* position of the main thread
    nsub,         \* futures submitted so far
    snap,         \* as_completed: futures finished before it was called, not yet yielded
    waiterq,      \* as_completed: waiter.finished_futures, in completion order
    finished,     \* the units whose Runner has returned, in the order of their return
    yielded,      \* futures as_completed has yielded
    results,      \* main's results list
    failed_tests, \* main's failed_tests list
    cancelIdx,    \* position of the cancel loop over future_to_launcher
    raised,       \* an exception is propagating out of main
    report,       \* the status lines and the failure details of generate_report
    exitCode,     \* the process exit status, once pc = "exited"
    fut,          \* unit -> state of its future
    rpc,          \* unit -> position of run_integration_test
    child,        \* unit -> state of its child process
    returncode,   \* unit -> exit status of its child, once exited
    emitted,      \* unit -> lines its child has written
    logged,       \* unit -> lines in its log file
    late,         \* unit -> time.time() - start_stream_time > timeout
    overran,      \* unit -> the child was still running when the timeout elapsed
    faulted,      \* unit -> a file, pipe or spawn operation of its run failed
    outcome,      \* unit -> what run_integration_test returned
    launchers,    \* unit -> its launcher path
    structured_logs, \* args.structured_logs
    clock,        \* time.strftime("%Y%m%d_%H%M%S"): the current second
    log_file,     \* unit -> the log file the Runner named for it (<<>>: none yet)
    tree,         \* the files below the working directory
    filter_pattern, \* args.filter
    find_pc,      \* find_integration_tests: "call" or "returned"
    found,        \* what find_integration_tests returned
    gr_results,   \* generate_report: its results argument
    output_file,  \* generate_report: its output_file argument
    compensated,  \* the interpreter's sum() uses compensated summation
    gr_pc,        \* generate_report: "call", "returned" or "raised"
    gr_report,    \* generate_report: the report it returned
    written,      \* generate_report: the file it wrote (<<>>: none)
    cli_available,   \* analyze_from_file: what is_available() returns
    prompt_exists,   \* analyze_from_file: prompt_path.exists() is True ("yes"),
                     \* False ("no") or raises OSError ("error")
    quiet,           \* analyze_from_file: its quiet argument
    show_progress,   \* analyze_from_file: its show_progress argument
    use_json_output, \* analyze_from_file: its use_json_output argument
    output_file_path, \* analyze_from_file: its output_file_path argument
    w_pc,            \* analyze_from_file: its position
    w_child,         \* the CLI child process: "none", "alive", "exited"
    w_returncode,    \* its exit status, once exited
    w_stdout,        \* what it wrote to stdout, once exited
    w_progress,      \* the progress animation: "none", "running", "stopped"
    w_result,        \* the dict analyze_from_file returned
    text_content,    \* extract_json_from_response: its argument
    ex_pc,           \* extract_json_from_response: "idle", "call" or "returned"
    parsed_json,     \* extract_json_from_response: what it returned
    wj_method,       \* which of the two ..._with_json methods is called
    wj_raised,       \* the underlying analysis raises instead of returning
    wj_result,       \* the dict the underlying analysis returns
    wj_pc,           \* the ..._with_json method: "idle", "call", "returned", "raised"
    wj_out           \* the dict the ..._with_json method returned

\* The naming of log files is studied on its own (LogSpec); the actions of the
\* run leave it alone.
logv == <<launchers, structured_logs, clock, log_file>>
settings == <<jbang, java, envOK, n, workers, failFast, stream, desc>>
findv == <<tree, filter_pattern, find_pc, found>>
reportv == <<gr_results, output_file, compensated, gr_pc, gr_report, written>>
wrapperv == <<cli_available, prompt_exists, quiet, show_progress, use_json_output,
              output_file_path, w_pc, w_child, w_returncode, w_stdout, w_progress,
              w_result>>
jsonv == <<text_content, ex_pc, parsed_json, wj_method, wj_raised, wj_result, wj_pc,
           wj_out>>
config == <<settings, logv, findv, reportv, wrapperv, jsonv>>
mainv == <<pc, nsub, snap, yielded, results, failed_tests, cancelIdx, raised,
           report, exitCode>>
childv == <<child, returncode, emitted, logged, late, overran, faulted>>
vars == <<config, mainv, waiterq, finished, fut, rpc, outcome, childv>>

Units == 1..n

LogIdle ==
    /\ launchers = DefaultLaunchers
    /\ structured_logs = FALSE
    /\ clock = 0
    /\ log_file = [u \in AllUnits |-> <<>>]

NoReport == [header |-> [total_tests |-> 0, passed_tests |-> 0, failed_tests |-> 0,
                         avg_time |-> 0, max_time |-> 0],
             lines |-> <<>>, details |-> <<>>]

ReportIdle ==
    /\ gr_results = <<>>
    /\ output_file = <<>>
    /\ compensated = FALSE
    /\ gr_pc = "call"
    /\ gr_report = NoReport
    /\ written = <<>>

\* The dict analyze_from_file returns: response and error are None (<<>>) or
\* a value (<<v>>).
Result(ok, response, error) == [success |-> ok, response |-> response, error |-> error]
NoResult == Result(FALSE, <<>>, <<>>)

WrapperIdle ==
    /\ cli_available = FALSE
    /\ prompt_exists = "no"
    /\ quiet = FALSE
    /\ show_progress = FALSE
    /\ use_json_output = FALSE
    /\ output_file_path = <<>>
    /\ w_pc = "idle"
    /\ w_child = "none"
    /\ w_returncode = 0
    /\ w_stdout = "none"
    /\ w_progress = "none"
    /\ w_result = NoResult

\* Python's None, where a parsed JSON value is expected.
None == <<>>

ExtractIdle ==
    /\ text_content = <<>>
    /\ ex_pc = "idle"
    /\ parsed_json = None

WithJsonIdle ==
    /\ wj_method = "file"
    /\ wj_raised = FALSE
    /\ wj_result = NoResult
    /\ wj_pc = "idle"
    /\ wj_out = NoResult

JsonIdle == ExtractIdle /\ WithJsonIdle

FindIdle ==
    /\ tree = <<>>
    /\ filter_pattern = <<>>
    /\ find_pc = "returned"
    /\ found = <<>>

\* Runs of several units take descriptors without success patterns and with
\* a positive timeoutSec, if any; runs of one unit take every descriptor.
Init ==
    /\ LogIdle
    /\ FindIdle
    /\ ReportIdle
    /\ WrapperIdle
    /\ JsonIdle
    /\ jbang \in BOOLEAN
    /\ java \in JavaChecks
    /\ envOK = validate_environment(jbang, java)
    /\ n \in 0..MaxUnits
    /\ workers \in 1..MaxWorkers
    /\ failFast \in BOOLEAN
    /\ stream \in BOOLEAN
    /\ desc \in [AllUnits -> Descriptors]
    /\ \A u \in AllUnits : u > n => desc[u] = NoDescriptor
    /\ n > 1 => \A u \in AllUnits :
                    /\ desc[u].successRegex = <<>>
                    /\ desc[u].timeoutSec # <<>> => desc[u].timeoutSec[1] > 0
    /\ pc = "validate"
    /\ nsub = 0
    /\ snap = {}
    /\ waiterq = <<>>
    /\ finished = <<>>
    /\ yielded = {}
    /\ results = <<>>
    /\ failed_tests = <<>>
    /\ cancelIdx = 1
    /\ raised = FALSE
    /\ report = [lines |-> <<>>, details |-> <<>>]
    /\ exitCode = 0
    /\ fut = [u \in AllUnits |-> "NEW"]
    /\ rpc = [u \in AllUnits |-> "idle"]
    /\ child = [u \in AllUnits |-> "none"]
    /\ returncode = [u \in AllUnits |-> 0]
    /\ emitted = [u \in AllUnits |-> 0]
    /\ logged = [u \in AllUnits |-> 0]
    /\ late = [u \in AllUnits |-> FALSE]
    /\ overran = [u \in AllUnits |-> FALSE]
    /\ faulted = [u \in AllUnits |-> FALSE]
    /\ outcome = [u \in AllUnits |-> NoOutcome]

\* ------------------------------------------------------------ main thread

\* if not validate_environment(): sys.exit(1)
ValidateEnvironment ==
    /\ pc = "validate"
    /\ IF envOK
         THEN pc' = "discover" /\ exitCode' = exitCode
         ELSE pc' = "exited" /\ exitCode' = 1
    /\ UNCHANGED <<config, nsub, snap, yielded, results, failed_tests, cancelIdx,
                   raised, report, waiterq, finished, fut, rpc, outcome, childv>>

\* A discovery whose empty result is not checked (the variant C17 is checked
\* against).
Discover_NoEmptyCheck ==
    /\ pc = "discover"
    /\ pc' = IF n = 0 THEN "shutdown" ELSE "submit"
    /\ UNCHANGED <<config, nsub, snap, yielded, results, failed_tests, cancelIdx,
                   raised, report, exitCode, waiterq, finished, fut, rpc, outcome, childv>>

\* launchers = find_integration_tests(args.filter); if not launchers: return
Discover ==
    /\ pc = "discover"
    /\ IF n = 0
         THEN pc' = "exited" /\ exitCode' = 0
         ELSE pc' = "submit" /\ exitCode' = exitCode
    /\ UNCHANGED <<config, nsub, snap, yielded, results, failed_tests, cancelIdx,
                   raised, report, waiterq, finished, fut, rpc, outcome, childv>>

\* executor.submit(run_integration_test, launcher, ...) for the next launcher
Submit ==
    /\ pc = "submit"
    /\ nsub < n
    /\ fut' = [fut EXCEPT ![nsub + 1] = "PENDING"]
    /\ nsub' = nsub + 1
    /\ pc' = IF nsub + 1 = n THEN "as_completed" ELSE "submit"
    /\ UNCHANGED <<config, snap, yielded, results, failed_tests, cancelIdx, raised,
                   report, exitCode, waiterq, finished, rpc, outcome, childv>>

\* The first next() of as_completed(future_to_launcher): the futures already
\* finished are put in a set (yielded first, in the set's order) and the
\* waiter is installed on the others.
AsCompleted ==
    /\ pc = "as_completed"
    /\ snap' = {u \in Units : fut[u] = "FINISHED"}
    /\ pc' = "collect"
    /\ UNCHANGED <<config, nsub, yielded, results, failed_tests, cancelIdx, raised,
                   report, exitCode, waiterq, finished, fut, rpc, outcome, childv>>

\* The futures as_completed may yield next.
NextYield ==
    IF snap # {} THEN snap
    ELSE IF waiterq # <<>> THEN {Head(waiterq)} ELSE {}

\* A collection loop that goes on after a failed outcome under --fail-fast
\* (the variant C32 is checked against).
Collect_NoBreak(u) ==
    /\ pc = "collect"
    /\ u \in NextYield
    /\ snap' = snap \ {u}
    /\ waiterq' = IF snap # {} THEN waiterq ELSE Tail(waiterq)
    /\ yielded' = yielded \cup {u}
    /\ raised' = raised
    /\ results' = Append(results, [unit |-> u, outcome |-> outcome[u]])
    /\ failed_tests' = IF outcome[u].success THEN failed_tests
                       ELSE Append(failed_tests, [unit |-> u, outcome |-> outcome[u]])
    /\ cancelIdx' = 1
    /\ pc' = IF yielded \cup {u} = Units THEN "shutdown" ELSE "collect"
    /\ UNCHANGED <<config, nsub, report, exitCode, fut, rpc, outcome, childv,
                   finished>>

\* One iteration of the collection loop for the future as_completed yields.
Collect(u) ==
    /\ pc = "collect"
    /\ u \in NextYield
    /\ snap' = snap \ {u}
    /\ waiterq' = IF snap # {} THEN waiterq ELSE Tail(waiterq)
    /\ yielded' = yielded \cup {u}
    /\ IF outcome[u].kind = "Raised"
         THEN \* future.result() re-raises what run_integration_test raised
              /\ raised' = TRUE
              /\ pc' = "shutdown"
              /\ UNCHANGED <<results, failed_tests, cancelIdx>>
         ELSE /\ raised' = raised
              /\ results' = Append(results, [unit |-> u, outcome |-> outcome[u]])
              /\ failed_tests' = IF outcome[u].success THEN failed_tests
                                 ELSE Append(failed_tests, [unit |-> u, outcome |-> outcome[u]])
              /\ cancelIdx' = 1
              /\ pc' = IF ~outcome[u].success /\ failFast THEN "cancel"
                       ELSE IF yielded \cup {u} = Units THEN "shutdown"
                       ELSE "collect"
    /\ UNCHANGED <<config, nsub, report, exitCode, fut, rpc, outcome, childv,
                   finished>>

\* pending_future.cancel() for the next future of future_to_launcher; after
\* the last one, break.
Cancel ==
    /\ pc = "cancel"
    /\ cancelIdx <= n
    /\ fut' = [fut EXCEPT ![cancelIdx] = IF @ = "PENDING" THEN "CANCELLED" ELSE @]
    /\ cancelIdx' = cancelIdx + 1
    /\ pc' = IF cancelIdx = n THEN "shutdown" ELSE "cancel"
    /\ UNCHANGED <<config, nsub, snap, yielded, results, failed_tests, raised,
                   report, exitCode, waiterq, finished, rpc, outcome, childv>>

\* Leaving the with block: executor.shutdown(wait=True) returns when the
\* workers have run every future that is not cancelled.  An exception that
\* left the loop then ends the process with a traceback.
Shutdown ==
    /\ pc = "shutdown"
    /\ \A u \in Units : fut[u] \notin {"PENDING", "RUNNING"}
    /\ IF raised
         THEN pc' = "exited" /\ exitCode' = 1
         ELSE pc' = "report" /\ exitCode' = exitCode
    /\ UNCHANGED <<config, nsub, snap, yielded, results, failed_tests, cancelIdx,
                   raised, report, waiterq, finished, fut, rpc, outcome, childv>>

\* ------------------------------------------------------------- report

\* Elapsed times are binary floating-point numbers.  A number is kept as the
\* integer count of its smallest unit; the representable ones have at most
\* FloatBits significant bits, and every operation rounds its exact result to
\* the nearest representable number, ties to the even significand.
RECURSIVE Pow2(_)
Pow2(k) == IF k = 0 THEN 1 ELSE 2 * Pow2(k - 1)

\* The spacing of the representable numbers around a / b.
Ulp(a, b) ==
    LET fits == {k \in 0..FloatBits : a < Pow2(FloatBits + k) * b}
    IN  Pow2(CHOOSE k \in fits : \A j \in fits : k <= j)

\* a / b rounded to the nearest integer, ties to even.
RoundHalfEven(a, b) ==
    LET q == a \div b
        r == a % b
    IN  IF 2 * r < b THEN q
        ELSE IF 2 * r > b THEN q + 1
        ELSE IF q % 2 = 0 THEN q ELSE q + 1

\* The floating-point number nearest to a / b.
Float(a, b) == Ulp(a, b) * RoundHalfEven(a, b * Ulp(a, b))

\* x + y and x / k in floating point.
FAdd(x, y) == Float(x + y, 1)
FDiv(x, k) == Float(x, k)

RECURSIVE SumSeq(_)
SumSeq(ts) == IF ts = <<>> THEN 0 ELSE SumSeq(SubSeq(ts, 1, Len(ts) - 1)) + ts[Len(ts)]

\* sum(execution_times): the additions from left to right, each rounded, or
\* (compensated summation) the exact sum rounded once.
RECURSIVE FSum(_)
FSum(ts) == IF ts = <<>> THEN 0
            ELSE FAdd(FSum(SubSeq(ts, 1, Len(ts) - 1)), ts[Len(ts)])
sum(ts, exact) == IF exact THEN Float(SumSeq(ts), 1) ELSE FSum(ts)

\* max(execution_times)
max(ts) == CHOOSE t \in {ts[i] : i \in DOMAIN ts} : \A i \in DOMAIN ts : ts[i] <= t

\* The header of the report: the counts and the timing statistics.
report_header(rs, exact) ==
    LET execution_times == [i \in DOMAIN rs |-> rs[i].exec_time]
    IN  [total_tests |-> Len(rs),
         passed_tests |-> Cardinality({i \in DOMAIN rs : rs[i].outcome.success}),
         failed_tests |-> Len(SelectSeq(rs, LAMBDA r : ~r.outcome.success)),
         avg_time |-> IF execution_times # <<>>
                        THEN FDiv(sum(execution_times, exact), Len(execution_times))
                        ELSE 0,
         max_time |-> IF execution_times # <<>> THEN max(execution_times) ELSE 0]

\* A report whose detail section lists every outcome (the variant C25 is
\* checked against).
generate_report_AllDetails(rs) ==
    [lines |-> [i \in 1..Len(rs) |->
                  [unit |-> rs[i].unit,
                   status |-> IF rs[i].outcome.success THEN "PASS" ELSE "FAIL",
                   outcome |-> rs[i].outcome]],
     details |-> rs]

\* A report that is written to any destination, even none (the variant C26
\* is checked against).
persist_Always(dest, text) == <<text>>

\* if output_file: open(output_file, 'w').write(report); the file written
\* (<<>> for none).  The destination is absent (<<>>) or a string (<<str>>).
persist(dest, text) == IF dest # <<>> /\ dest[1] # "" THEN <<text>> ELSE <<>>

\* generate_report: one status line per result, one detail per failed result.
StatusLine(r) == [unit |-> r.unit,
                  status |-> IF r.outcome.success THEN "PASS" ELSE "FAIL",
                  outcome |-> r.outcome]
generate_report(rs) ==
    [lines |-> [i \in 1..Len(rs) |-> StatusLine(rs[i])],
     details |-> SelectSeq(rs, LAMBDA r : ~r.outcome.success)]

Report ==
    /\ pc = "report"
    /\ report' = generate_report(results)
    /\ pc' = "summary"
    /\ UNCHANGED <<config, nsub, snap, yielded, results, failed_tests, cancelIdx,
                   raised, exitCode, waiterq, finished, fut, rpc, outcome, childv>>

\* A summary that returns normally whatever failed (the variant C15 is checked
\* against).
Summary_AlwaysZero ==
    /\ pc = "summary"
    /\ exitCode' = 0
    /\ pc' = "exited"
    /\ UNCHANGED <<config, nsub, snap, yielded, results, failed_tests, cancelIdx,
                   raised, report, waiterq, finished, fut, rpc, outcome, childv>>

\* if failed_tests: sys.exit(1); otherwise main returns
Summary ==
    /\ pc = "summary"
    /\ exitCode' = IF failed_tests # <<>> THEN 1 ELSE 0
    /\ pc' = "exited"
    /\ UNCHANGED <<config, nsub, snap, yielded, results, failed_tests, cancelIdx,
                   raised, report, waiterq, finished, fut, rpc, outcome, childv>>

MainStep ==
    \/ ValidateEnvironment
    \/ Discover
    \/ Submit
    \/ AsCompleted
    \/ \E u \in AllUnits : Collect(u)
    \/ Cancel
    \/ Shutdown
    \/ Report
    \/ Summary

\* ------------------------------------------------------- worker threads

\* A pool that starts a thread for every submitted work item.
PoolHasFreeWorker_Unbounded == TRUE

\* ThreadPoolExecutor(max_workers=args.workers): a worker thread is free to
\* take the next work item when fewer than max_workers items are running.
PoolHasFreeWorker == Cardinality({v \in Units : fut[v] = "RUNNING"}) < workers

\* run_integration_test returns o: the worker sets the future's result, which
\* hands the future to the waiter of as_completed when one is installed.
Return(u, o) ==
    /\ fut' = [fut EXCEPT ![u] = "FINISHED"]
    /\ rpc' = [rpc EXCEPT ![u] = "done"]
    /\ outcome' = [outcome EXCEPT ![u] = o]
    /\ waiterq' = IF pc = "collect" THEN Append(waiterq, u) ELSE waiterq
    /\ finished' = Append(finished, u)

\* A worker takes the oldest work item that is not cancelled and calls
\* run_integration_test for it.
Start(u) ==
    /\ u \in Units
    /\ fut[u] = "PENDING"
    /\ \A v \in Units : v < u => fut[v] # "PENDING"
    /\ PoolHasFreeWorker
    /\ fut' = [fut EXCEPT ![u] = "RUNNING"]
    /\ rpc' = [rpc EXCEPT ![u] = "config"]
    /\ UNCHANGED <<config, mainv, waiterq, finished, outcome, childv>>

\* A runner that does not look at the descriptor before it sets the run up.
LoadConfig_NoCheck(u) ==
    /\ rpc[u] = "config"
    /\ rpc' = [rpc EXCEPT ![u] = "setup"]
    /\ UNCHANGED <<fut, outcome, waiterq, finished, config, mainv, childv>>

\* The descriptor: info_file.exists(), info_file.open(), json.load.  Only
\* json.JSONDecodeError is caught; any other exception of open() or of the
\* read leaves run_integration_test.
LoadConfig(u) ==
    /\ rpc[u] = "config"
    /\ CASE desc[u].kind = "absent" -> Return(u, Outcome(FALSE, "Missing", 0))
         [] desc[u].kind = "invalid" -> Return(u, Outcome(FALSE, "InvalidJSON", 0))
         [] desc[u].kind = "unreadable" -> Return(u, Outcome(FALSE, "Raised", 0))
         [] desc[u].kind = "ok" ->
              /\ rpc' = [rpc EXCEPT ![u] = "setup"]
              /\ UNCHANGED <<fut, outcome, waiterq, finished>>
    /\ UNCHANGED <<config, mainv, childv>>

\* Paths and log directory, then the log file is opened and the child is
\* spawned (Popen in stream mode, subprocess.run otherwise).  A failure of the
\* former is caught by the outer except, a failure of the latter by the
\* except of the stream branch or, in buffered mode, by the outer except.
Setup(u) ==
    /\ rpc[u] = "setup"
    /\ \E fault \in {"none", "paths", "spawn"} :
         /\ faulted' = [faulted EXCEPT ![u] = (fault # "none")]
         /\ CASE fault = "paths" ->
                   /\ Return(u, Outcome(FALSE, "ExecutionError", 0))
                   /\ UNCHANGED child
              [] fault = "spawn" ->
                   /\ Return(u, Outcome(FALSE, IF stream THEN "StreamingError"
                                               ELSE "ExecutionError", 0))
                   /\ UNCHANGED child
              [] fault = "none" ->
                   /\ child' = [child EXCEPT ![u] = "alive"]
                   /\ rpc' = [rpc EXCEPT ![u] = IF stream THEN "read" ELSE "bufwait"]
                   /\ UNCHANGED <<fut, outcome, waiterq, finished>>
    /\ UNCHANGED <<config, mainv, returncode, emitted, logged, late, overran>>

\* Stream mode, one iteration of the readline loop for a line of the pipe:
\* write it to the log, check the deadline, display, poll the child.
StreamLine(u) ==
    /\ rpc[u] = "read"
    /\ emitted[u] > logged[u]
    /\ \E fault \in BOOLEAN, dead \in BOOLEAN :
         /\ faulted' = [faulted EXCEPT ![u] = fault]
         /\ IF fault
              THEN \* logf.write, logf.flush or print raises: except Exception
                   /\ Return(u, Outcome(FALSE, "StreamingError", 0))
                   /\ UNCHANGED <<child, returncode, logged>>
              ELSE /\ logged' = [logged EXCEPT ![u] = @ + 1]
                   /\ IF late[u]
                        THEN \* process.terminate(); return: SIGTERM is sent and
                             \* nothing waits for the child
                             /\ Return(u, Outcome(FALSE, "Timeout", Timeout(desc[u])))
                             /\ IF child[u] = "alive"
                                  THEN IF dead
                                         THEN /\ child' = [child EXCEPT ![u] = "exited"]
                                              /\ returncode' = [returncode EXCEPT ![u] = 0 - SIGTERM]
                                         ELSE /\ child' = [child EXCEPT ![u] = "terminating"]
                                              /\ returncode' = returncode
                                  ELSE UNCHANGED <<child, returncode>>
                        ELSE \* if process.poll() is not None: break; process.wait()
                             /\ rpc' = [rpc EXCEPT ![u] =
                                          IF child[u] = "exited" THEN "verify" ELSE "read"]
                             /\ UNCHANGED <<fut, outcome, waiterq, finished, child, returncode>>
    /\ UNCHANGED <<config, mainv, emitted, late, overran>>

\* Stream mode: readline returns '' at end of file; process.wait().
StreamEOF(u) ==
    /\ rpc[u] = "read"
    /\ emitted[u] = logged[u]
    /\ child[u] = "exited"
    /\ rpc' = [rpc EXCEPT ![u] = "verify"]
    /\ UNCHANGED <<config, mainv, waiterq, finished, fut, outcome, childv>>

\* Buffered mode: subprocess.run returns the exit status of the child.
BufferedReturn(u) ==
    /\ rpc[u] = "bufwait"
    /\ child[u] = "exited"
    /\ rpc' = [rpc EXCEPT ![u] = "verify"]
    /\ UNCHANGED <<config, mainv, waiterq, finished, fut, outcome, childv>>

\* Buffered mode: the timeout of subprocess.run expires while the child runs;
\* subprocess.run kills the child, waits for it and raises TimeoutExpired.
\* The expiry and the kill are one step: the polling interval of the wait is
\* not modelled.
BufferedTimeout(u) ==
    /\ rpc[u] = "bufwait"
    /\ child[u] = "alive"
    /\ late' = [late EXCEPT ![u] = TRUE]
    /\ overran' = [overran EXCEPT ![u] = TRUE]
    /\ child' = [child EXCEPT ![u] = "exited"]
    /\ returncode' = [returncode EXCEPT ![u] = 0 - SIGKILL]
    /\ Return(u, Outcome(FALSE, "Timeout", Timeout(desc[u])))
    /\ UNCHANGED <<config, mainv, emitted, logged, faulted>>

\* A verdict that ignores the exit code (the variant C14 is checked against).
Verdict_AlwaysFail(code) == Outcome(FALSE, "ExitCode", code)

\* The log is read back.  In stream mode the output is displayed and every
\* success pattern is searched in it for display, which raises re.error for a
\* pattern that does not compile.  Then the exit code alone decides.
Verdict(code) ==
    IF code # 0 THEN Outcome(FALSE, "ExitCode", code)
    ELSE Outcome(TRUE, "Success", 0)

\* What run_integration_test returns once the log has been read back, for the
\* descriptor d and the exit code of the child, in stream or buffered mode.
verify(d, code, streamMode) ==
    IF streamMode /\ \E i \in DOMAIN d.successRegex : d.successRegex[i] = "bad"
      THEN Outcome(FALSE, "ExecutionError", 0)
      ELSE Verdict(code)

\* The same step of run_integration_test in src/scripts/run_integration_tests.py:
\* the log is read back and displayed only under --verbose without --stream,
\* no pattern is searched, the exit code decides.
scripts_verify(d, code, streamMode) == Verdict(code)

Verify(u) ==
    /\ rpc[u] = "verify"
    /\ \E fault \in BOOLEAN :
         /\ faulted' = [faulted EXCEPT ![u] = fault]
         /\ IF fault
              THEN Return(u, Outcome(FALSE, "ExecutionError", 0))
              ELSE Return(u, verify(desc[u], returncode[u], stream))
    /\ UNCHANGED <<config, mainv, child, returncode, emitted, logged, late, overran>>

RunnerStep(u) ==
    \/ Start(u)
    \/ LoadConfig(u)
    \/ Setup(u)
    \/ StreamLine(u)
    \/ StreamEOF(u)
    \/ BufferedReturn(u)
    \/ BufferedTimeout(u)
    \/ Verify(u)

\* ------------------------------------------------------------ environment

\* The child writes a line, while the Runner holds its output open: into the
\* pipe (stream mode) or into the log file.
ChildEmit(u) ==
    /\ child[u] = "alive"
    /\ rpc[u] \in {"read", "bufwait"}
    /\ emitted[u] < MaxLines
    /\ emitted' = [emitted EXCEPT ![u] = @ + 1]
    /\ logged' = IF stream THEN logged ELSE [logged EXCEPT ![u] = @ + 1]
    /\ UNCHANGED <<config, mainv, waiterq, finished, fut, rpc, outcome, child, returncode,
                   late, overran, faulted>>

\* The child exits on its own.
ChildExit(u) ==
    /\ child[u] = "alive"
    /\ \E code \in ExitCodes : returncode' = [returncode EXCEPT ![u] = code]
    /\ child' = [child EXCEPT ![u] = "exited"]
    /\ UNCHANGED <<config, mainv, waiterq, finished, fut, rpc, outcome, emitted, logged,
                   late, overran, faulted>>

\* A child that was sent SIGTERM ends.
ChildDies(u) ==
    /\ child[u] = "terminating"
    /\ child' = [child EXCEPT ![u] = "exited"]
    /\ returncode' = [returncode EXCEPT ![u] = 0 - SIGTERM]
    /\ UNCHANGED <<config, mainv, waiterq, finished, fut, rpc, outcome, emitted, logged,
                   late, overran, faulted>>

\* Stream mode: the wall clock passes start_stream_time + timeout.
DeadlinePasses(u) ==
    /\ rpc[u] = "read"
    /\ ~late[u]
    /\ late' = [late EXCEPT ![u] = TRUE]
    /\ overran' = [overran EXCEPT ![u] = (child[u] = "alive")]
    /\ UNCHANGED <<config, mainv, waiterq, finished, fut, rpc, outcome, child, returncode,
                   emitted, logged, faulted>>

EnvStep(u) ==
    \/ ChildEmit(u)
    \/ ChildExit(u)
    \/ ChildDies(u)
    \/ DeadlinePasses(u)

Next ==
    \/ MainStep
    \/ \E u \in AllUnits : RunnerStep(u)
    \/ \E u \in AllUnits : EnvStep(u)

Spec == Init /\ [][Next]_vars

\* ------------------------------------------------------- log file naming

\* The state before any Runner has named its log file: the launchers are any
\* distinct paths, the run started at second 0 in either log mode.
\* The variables of the run while a function is studied on its own: every
\* launcher is submitted and its Runner is about to set up its paths.
RunAtRest ==
    /\ jbang = TRUE
    /\ java = "ok"
    /\ envOK = validate_environment(jbang, java)
    /\ n = MaxUnits
    /\ workers = MaxWorkers
    /\ failFast = FALSE
    /\ stream = FALSE
    /\ desc = [u \in AllUnits |-> [kind |-> "ok", timeoutSec |-> <<>>, successRegex |-> <<>>]]
    /\ pc = "collect"
    /\ nsub = n
    /\ snap = {}
    /\ waiterq = <<>>
    /\ finished = <<>>
    /\ yielded = {}
    /\ results = <<>>
    /\ failed_tests = <<>>
    /\ cancelIdx = 1
    /\ raised = FALSE
    /\ report = [lines |-> <<>>, details |-> <<>>]
    /\ exitCode = 0
    /\ fut = [u \in AllUnits |-> "RUNNING"]
    /\ rpc = [u \in AllUnits |-> "setup"]
    /\ child = [u \in AllUnits |-> "none"]
    /\ returncode = [u \in AllUnits |-> 0]
    /\ emitted = [u \in AllUnits |-> 0]
    /\ logged = [u \in AllUnits |-> 0]
    /\ late = [u \in AllUnits |-> FALSE]
    /\ overran = [u \in AllUnits |-> FALSE]
    /\ faulted = [u \in AllUnits |-> FALSE]
    /\ outcome = [u \in AllUnits |-> NoOutcome]

LogInit ==
    /\ launchers \in LauncherLists
    /\ structured_logs \in BOOLEAN
    /\ clock = 0
    /\ log_file = [u \in AllUnits |-> <<>>]
    /\ FindIdle
    /\ ReportIdle
    /\ WrapperIdle
    /\ JsonIdle
    /\ RunAtRest

\* A Runner that asks for the log directory itself, at the time it names its
\* file (the variant C30 is checked against).
NameLogFile_OwnDirectory(u) ==
    /\ u \in Units
    /\ rpc[u] = "setup"
    /\ log_file[u] = <<>>
    /\ log_file' = [log_file EXCEPT ![u] =
                      log_file_path(launchers[u],
                                    get_log_directory(structured_logs, clock), clock)]
    /\ UNCHANGED <<settings, findv, reportv, wrapperv, jsonv, launchers, structured_logs, clock,
                   mainv, waiterq, finished, fut, rpc, outcome, childv>>

\* The Runner of unit u names its log file (and opens it for writing): main
\* asked for the run directory once, at second 0, and passes it to every
\* Runner.
NameLogFile(u) ==
    /\ u \in Units
    /\ rpc[u] = "setup"
    /\ log_file[u] = <<>>
    /\ log_file' = [log_file EXCEPT ![u] =
                      log_file_path(launchers[u],
                                    get_log_directory(structured_logs, 0), clock)]
    /\ UNCHANGED <<settings, findv, reportv, wrapperv, jsonv, launchers, structured_logs, clock, mainv,
                   waiterq, finished, fut, rpc, outcome, childv>>

\* A second passes.
Tick ==
    /\ clock < MaxClock
    /\ clock' = clock + 1
    /\ UNCHANGED <<settings, findv, reportv, wrapperv, jsonv, launchers, structured_logs, log_file, mainv,
                   waiterq, finished, fut, rpc, outcome, childv>>

LogNext ==
    \/ \E u \in AllUnits : NameLogFile(u)
    \/ Tick

LogSpec == LogInit /\ [][LogNext]_vars

\* ------------------------------------------------------------ discovery

\* find_integration_tests is about to be called on any tree with any filter.
FindInit ==
    /\ tree \in Trees
    /\ filter_pattern \in Filters
    /\ find_pc = "call"
    /\ found = <<>>
    /\ LogIdle
    /\ ReportIdle
    /\ WrapperIdle
    /\ JsonIdle
    /\ RunAtRest

FindIntegrationTests ==
    /\ find_pc = "call"
    /\ found' = find_integration_tests(tree, filter_pattern)
    /\ find_pc' = "returned"
    /\ UNCHANGED <<settings, logv, reportv, wrapperv, jsonv, tree, filter_pattern, mainv, waiterq, finished, fut, rpc,
                   outcome, childv>>

FindNext == FindIntegrationTests

FindSpec == FindInit /\ [][FindNext]_vars

\* --------------------------------------------------------------- report

\* The outcomes generate_report can be given: a success or a failure with its
\* message, and the elapsed time of the unit.
\* (the times are 0 and two numbers near the top of a binade)
ExecTimes == {0, Pow2(FloatBits) - 7, Pow2(FloatBits) - 6}
ReportOutcomes == {Outcome(TRUE, "Success", 0), Outcome(FALSE, "ExitCode", 1),
                   Outcome(FALSE, "Missing", 0)}
ResultLists ==
    UNION {{rs \in [1..k -> [unit : 1..MaxResults, outcome : ReportOutcomes,
                             exec_time : ExecTimes]] :
               \A i \in 1..k : rs[i].unit = i} : k \in 0..MaxResults}
OutputFiles == {<<>>, <<"">>, <<"report.md">>}

\* generate_report is about to be called with any results and destination.
ReportInit ==
    /\ gr_results \in ResultLists
    /\ output_file \in OutputFiles
    /\ compensated \in BOOLEAN
    /\ gr_pc = "call"
    /\ gr_report = NoReport
    /\ written = <<>>
    /\ LogIdle
    /\ FindIdle
    /\ WrapperIdle
    /\ JsonIdle
    /\ RunAtRest

\* The whole of generate_report: the statistics, the f-string of the header
\* (whose percentages divide by total_tests), the lines, the details, the
\* file, the return.
GenerateReport ==
    /\ gr_pc = "call"
    /\ IF Len(gr_results) = 0
         THEN \* passed_tests/total_tests raises ZeroDivisionError
              /\ gr_pc' = "raised"
              /\ UNCHANGED <<gr_report, written>>
         ELSE /\ gr_pc' = "returned"
              /\ gr_report' = [header |-> report_header(gr_results, compensated),
                               lines |-> generate_report(gr_results).lines,
                               details |-> generate_report(gr_results).details]
              /\ written' = persist(output_file, gr_report')
    /\ UNCHANGED <<settings, logv, findv, wrapperv, jsonv, gr_results, output_file,
                   compensated, mainv, waiterq, finished, fut, rpc, outcome, childv>>

ReportNext == GenerateReport

ReportSpec == ReportInit /\ [][ReportNext]_vars

\* ------------------------------------------------ the CLI wrapper
\* src/integration-testing/ai-validator/lib/claude_code_wrapper.py

\* What the CLI child can write to stdout: a JSON object with subtype
\* error_during_execution, a JSON object with a result, a JSON list of
\* messages, or text that is not JSON.
StdoutKinds == {"error_subtype", "result_object", "message_list", "plain_text"}

\* Everything but the wrapper.
orchestrator == <<settings, logv, findv, reportv, jsonv, mainv, waiterq, finished, fut,
                  rpc, outcome, childv>>
wrapper_args == <<cli_available, prompt_exists, quiet, show_progress, use_json_output,
                  output_file_path>>

\* analyze_from_file is called with any arguments in any environment.
WrapperInit ==
    /\ cli_available \in BOOLEAN
    /\ prompt_exists \in {"yes", "no", "error"}
    /\ quiet \in BOOLEAN
    /\ show_progress \in BOOLEAN
    /\ use_json_output \in BOOLEAN
    /\ output_file_path \in {<<>>, <<"response.txt">>}
    /\ w_pc = "is_available"
    /\ w_child = "none"
    /\ w_returncode = 0
    /\ w_stdout = "none"
    /\ w_progress = "none"
    /\ w_result = NoResult
    /\ LogIdle
    /\ FindIdle
    /\ ReportIdle
    /\ JsonIdle
    /\ RunAtRest

\* return {...}
WReturn(r) ==
    /\ w_pc' = "returned"
    /\ w_result' = r

\* if not self.is_available(): return {... 'Claude Code is not available'}
WIsAvailable ==
    /\ w_pc = "is_available"
    /\ IF cli_available
         THEN w_pc' = "exists" /\ UNCHANGED w_result
         ELSE WReturn(Result(FALSE, <<>>, <<"NotAvailable">>))
    /\ UNCHANGED <<orchestrator, wrapper_args, w_child, w_returncode, w_stdout,
                   w_progress>>

\* if not prompt_path.exists(): return {... 'Prompt file not found'}.  The
\* test is made before the try: an OSError of stat() other than "no such
\* file" (permission denied, name too long) leaves analyze_from_file.
WPromptExists ==
    /\ w_pc = "exists"
    /\ CASE prompt_exists = "yes" -> w_pc' = "log" /\ UNCHANGED w_result
         [] prompt_exists = "no" -> WReturn(Result(FALSE, <<>>, <<"PromptNotFound">>))
         [] prompt_exists = "error" -> w_pc' = "raised" /\ UNCHANGED w_result
    /\ UNCHANGED <<orchestrator, wrapper_args, w_child, w_returncode, w_stdout,
                   w_progress>>

\* The command is built and, unless quiet, the prompt size is logged.  When
\* stat() raises there, logger stays unbound and logger.info of line 151
\* raises, which the outer except turns into 'Unexpected error'.
WLogPrompt ==
    /\ w_pc = "log"
    /\ \E fault \in BOOLEAN :
         IF fault /\ ~quiet
           THEN WReturn(Result(FALSE, <<>>, <<"Unexpected">>))
           ELSE w_pc' = "popen" /\ UNCHANGED w_result
    /\ UNCHANGED <<orchestrator, wrapper_args, w_child, w_returncode, w_stdout,
                   w_progress>>

\* progress.start() when asked for, then subprocess.Popen(cmd, ...).  When
\* Popen raises, the finally stops the progress and the outer except returns
\* 'Unexpected error'.
WPopen ==
    /\ w_pc = "popen"
    /\ \E fault \in BOOLEAN :
         IF fault
           THEN /\ WReturn(Result(FALSE, <<>>, <<"Unexpected">>))
                /\ w_progress' = IF show_progress /\ ~quiet THEN "stopped" ELSE "none"
                /\ UNCHANGED w_child
           ELSE /\ w_pc' = "communicate"
                /\ w_progress' = IF show_progress /\ ~quiet THEN "running" ELSE "none"
                /\ w_child' = "alive"
                /\ UNCHANGED w_result
    /\ UNCHANGED <<orchestrator, wrapper_args, w_returncode, w_stdout>>

\* The variant of the return of communicate that does not look at the exit
\* code (the one C27 is checked against).
WCommunicate_NoCheck ==
    /\ w_pc = "communicate"
    /\ w_child = "exited"
    /\ w_progress' = IF w_progress = "running" THEN "stopped" ELSE w_progress
    /\ w_pc' = "save"
    /\ UNCHANGED <<orchestrator, wrapper_args, w_child, w_returncode, w_stdout, w_result>>

\* process.communicate(timeout=timeout) returns: the child has exited.  The
\* finally stops the progress; a non-zero exit code is raised as
\* CalledProcessError and returned as a failure.
WCommunicate ==
    /\ w_pc = "communicate"
    /\ w_child = "exited"
    /\ w_progress' = IF w_progress = "running" THEN "stopped" ELSE w_progress
    /\ IF w_returncode # 0
         THEN WReturn(Result(FALSE, <<>>, <<"ReturnCode">>))
         ELSE w_pc' = "save" /\ UNCHANGED w_result
    /\ UNCHANGED <<orchestrator, wrapper_args, w_child, w_returncode, w_stdout>>

\* process.communicate raises TimeoutExpired: the child is still running.
\* The finally stops the progress, the except returns the failure; nothing
\* kills or waits for the child.
WTimeoutExpired ==
    /\ w_pc = "communicate"
    /\ w_child = "alive"
    /\ w_progress' = IF w_progress = "running" THEN "stopped" ELSE w_progress
    /\ WReturn(Result(FALSE, <<>>, <<"TimedOut">>))
    /\ UNCHANGED <<orchestrator, wrapper_args, w_child, w_returncode, w_stdout>>

\* if output_file_path: mkdir, open, write; an error there is returned as
\* 'Unexpected error' by the outer except.
WSaveOutput ==
    /\ w_pc = "save"
    /\ \E fault \in BOOLEAN :
         IF fault /\ output_file_path # <<>>
           THEN WReturn(Result(FALSE, <<>>, <<"Unexpected">>))
           ELSE w_pc' = "parse" /\ UNCHANGED w_result
    /\ UNCHANGED <<orchestrator, wrapper_args, w_child, w_returncode, w_stdout,
                   w_progress>>

\* The response is processed: with use_json_output, json.loads(stdout); a
\* dict of subtype error_during_execution is a failure, text that is not JSON
\* is returned as it is, anything else gives its content.
WProcessResponse ==
    /\ w_pc = "parse"
    /\ IF use_json_output /\ w_stdout = "error_subtype"
         THEN WReturn(Result(FALSE, <<>>, <<"ExecutionError">>))
         ELSE WReturn(Result(TRUE, <<w_stdout>>, <<>>))
    /\ UNCHANGED <<orchestrator, wrapper_args, w_child, w_returncode, w_stdout,
                   w_progress>>

\* The child exits, with any exit code and any output.
WChildExit ==
    /\ w_child = "alive"
    /\ w_child' = "exited"
    /\ \E code \in ExitCodes, out \in StdoutKinds :
         /\ w_returncode' = code
         /\ w_stdout' = out
    /\ UNCHANGED <<orchestrator, wrapper_args, w_pc, w_progress, w_result>>

WrapperNext ==
    \/ WIsAvailable
    \/ WPromptExists
    \/ WLogPrompt
    \/ WPopen
    \/ WCommunicate
    \/ WTimeoutExpired
    \/ WSaveOutput
    \/ WProcessResponse
    \/ WChildExit

WrapperSpec == WrapperInit /\ [][WrapperNext]_vars

\* ------------------------------------------- extract_json_from_response

\* A text is a sequence of characters.  The characters of a response: the
\* braces, a digit, a member key with its colon ("k" stands for "k": and has
\* no brace in it), the newline, and the two fences of a markdown code block,
\* each taken as one character ("[fence]" stands for three backquotes).
NL == "\n"
FenceJson == "[fence]json"
Fence == "[fence]"
LineChars == {"{", "}", "k", "1"}

\* The lines of a response: up to MaxLineLen characters, or a fence.
ResponseLines ==
    UNION {[1..k -> LineChars] : k \in 0..MaxLineLen} \cup {<<FenceJson>>, <<Fence>>}

\* '\n'.join(lines)
RECURSIVE join_lines(_)
join_lines(ls) ==
    IF ls = <<>> THEN <<>>
    ELSE IF Len(ls) = 1 THEN ls[1]
    ELSE ls[1] \o <<NL>> \o join_lines(Tail(ls))

\* The texts of up to k lines.
TextsOf(k) == {join_lines(ls) : ls \in UNION {[1..m -> ResponseLines] : m \in 0..k}}
Responses == TextsOf(MaxResponseLines)

\* text.split('\n')
RECURSIVE split_lines(_)
split_lines(text) ==
    LET nls == {i \in DOMAIN text : text[i] = NL}
    IN  IF nls = {} THEN <<text>>
        ELSE LET i == CHOOSE x \in nls : \A y \in nls : x <= y
             IN  <<SubSeq(text, 1, i - 1)>> \o split_lines(SubSeq(text, i + 1, Len(text)))

\* text.strip(): the newline is the only white space of a text.
strip(text) ==
    LET ink == {i \in DOMAIN text : text[i] # NL}
    IN  IF ink = {} THEN <<>>
        ELSE SubSeq(text, CHOOSE x \in ink : \A y \in ink : x <= y,
                          CHOOSE x \in ink : \A y \in ink : y <= x)

\* line.count(c)
count(line, c) == Cardinality({i \in DOMAIN line : line[i] = c})

\* The JSON values over these characters, white space removed: a number
\* (digits), the empty object, or an object of one member.
RECURSIVE IsJsonValue(_)
IsJsonValue(t) ==
    \/ t # <<>> /\ \A i \in DOMAIN t : t[i] = "1"
    \/ t = <<"{", "}">>
    \/ /\ Len(t) >= 4
       /\ t[1] = "{" /\ t[2] = "k" /\ t[Len(t)] = "}"
       /\ IsJsonValue(SubSeq(t, 3, Len(t) - 1))

\* json.loads(text): the value (the text without its white space), or
\* JSONDecodeError.  White space may stand between any two tokens, not
\* inside a number.
json_loads(text) ==
    LET t == SelectSeq(text, LAMBDA c : c # NL)
        split_number == \E i, j \in DOMAIN text :
                            /\ i + 1 < j
                            /\ text[i] = "1" /\ text[j] = "1"
                            /\ \A m \in (i + 1)..(j - 1) : text[m] = NL
    IN  IF ~split_number /\ IsJsonValue(t)
          THEN [ok |-> TRUE, value |-> t]
          ELSE [ok |-> FALSE, value |-> <<>>]

\* What a strategy found to parse, if anything.
Candidate(str) == [found |-> TRUE, str |-> str]
NoCandidate == [found |-> FALSE, str |-> <<>>]

\* The three backquotes of the closing fence are also the first characters
\* of the opening one.
IsFence(c) == c \in {Fence, FenceJson}

\* re.search(json_pattern, text, re.DOTALL) from the opening fence at i;
\* json_pattern is: fence, json, \s*, \n, (.*?), \n, fence.  \s* takes the newlines that follow (all but the last, which \n
\* takes), the group is the shortest text up to a newline followed by a
\* fence; when there is none, \s* gives back one newline and the group is
\* empty before a fence that follows the newlines at once.
match_at(text, i) ==
    LET run == {j \in i..Len(text) : \A m \in (i + 1)..j : text[m] = NL}
        j == CHOOSE x \in run : \A y \in run : y <= x
        ends == {e \in DOMAIN text : e >= j + 2 /\ IsFence(text[e]) /\ text[e - 1] = NL}
    IN  IF j = i THEN NoCandidate
        ELSE IF ends # {}
          THEN Candidate(SubSeq(text, j + 1, (CHOOSE x \in ends : \A y \in ends : x <= y) - 2))
        ELSE IF j >= i + 2 /\ j < Len(text) /\ IsFence(text[j + 1])
          THEN Candidate(<<>>)
        ELSE NoCandidate

\* Strategy 1: group(1).strip() of the leftmost match of the fenced block.
markdown_block(text) ==
    LET starts == {i \in DOMAIN text : text[i] = FenceJson /\ match_at(text, i).found}
    IN  IF starts = {} THEN NoCandidate
        ELSE Candidate(strip(match_at(text, CHOOSE x \in starts : \A y \in starts : x <= y).str))

\* Strategy 2, the loop over the lines: the block starts at the first line
\* that begins with '{' and ends at the line where the braces counted so far
\* balance and that ends with '}'.
scan_line(st, line) ==
    LET start == line # <<>> /\ line[1] = "{" /\ ~st.in_json
        in_json == st.in_json \/ start
        json_lines == IF start THEN <<line>>
                      ELSE IF st.in_json THEN Append(st.json_lines, line)
                      ELSE st.json_lines
        brace_count == (IF start THEN 0 ELSE st.brace_count)
                       + (IF in_json THEN count(line, "{") - count(line, "}") ELSE 0)
    IN  [in_json |-> in_json, json_lines |-> json_lines, brace_count |-> brace_count,
         broke |-> in_json /\ brace_count = 0 /\ line # <<>> /\ line[Len(line)] = "}"]

RECURSIVE scan_lines(_, _)
scan_lines(st, lines) ==
    IF lines = <<>> \/ st.broke THEN st
    ELSE scan_lines(scan_line(st, lines[1]), Tail(lines))

direct_block(text) ==
    LET st == scan_lines([in_json |-> FALSE, json_lines |-> <<>>, brace_count |-> 0,
                          broke |-> FALSE], split_lines(text))
    IN  IF st.json_lines # <<>> /\ st.in_json
          THEN Candidate(strip(join_lines(st.json_lines)))
          ELSE NoCandidate

\* Strategy 3: text[first_brace:last_brace+1].strip()
bracket_span(text) ==
    LET opens == {i \in DOMAIN text : text[i] = "{"}
        closes == {i \in DOMAIN text : text[i] = "}"}
        first_brace == CHOOSE x \in opens : \A y \in opens : x <= y
        last_brace == CHOOSE x \in closes : \A y \in closes : y <= x
    IN  IF opens # {} /\ closes # {} /\ last_brace > first_brace
          THEN Candidate(strip(SubSeq(text, first_brace, last_brace)))
          ELSE NoCandidate

\* The candidates in the order the strategies are tried.
Candidates(text) == <<markdown_block(text), direct_block(text), bracket_span(text)>>

\* The candidate of strategy k is there and json.loads accepts it.
Parses(text, k) == Candidates(text)[k].found /\ json_loads(Candidates(text)[k].str).ok

\* The strategies tried from the last to the first (the variant C36 is
\* checked against).
extract_json_from_response_LastFirst(text) ==
    IF text = <<>> THEN None
    ELSE IF Parses(text, 3) THEN json_loads(bracket_span(text).str).value
    ELSE IF Parses(text, 2) THEN json_loads(direct_block(text).str).value
    ELSE IF Parses(text, 1) THEN json_loads(markdown_block(text).str).value
    ELSE None

\* extract_json_from_response: None for an empty text; else the parse of the
\* fenced block, else of the line-based block, else of the span of the
\* braces; None when none parses.
extract_json_from_response(text) ==
    IF text = <<>> THEN None
    ELSE IF markdown_block(text).found /\ json_loads(markdown_block(text).str).ok
      THEN json_loads(markdown_block(text).str).value
    ELSE IF direct_block(text).found /\ json_loads(direct_block(text).str).ok
      THEN json_loads(direct_block(text).str).value
    ELSE IF bracket_span(text).found /\ json_loads(bracket_span(text).str).ok
      THEN json_loads(bracket_span(text).str).value
    ELSE None

\* Everything but the JSON extraction.
not_json == <<settings, logv, findv, reportv, wrapperv, mainv, waiterq, finished, fut,
              rpc, outcome, childv>>

\* extract_json_from_response is called with any text.
ExtractInit ==
    /\ text_content \in TextsOf(MaxTextLines)
    /\ ex_pc = "call"
    /\ parsed_json = None
    /\ WithJsonIdle
    /\ LogIdle
    /\ FindIdle
    /\ ReportIdle
    /\ WrapperIdle
    /\ RunAtRest

ExtractJsonFromResponse ==
    /\ ex_pc = "call"
    /\ parsed_json' = extract_json_from_response(text_content)
    /\ ex_pc' = "returned"
    /\ UNCHANGED <<not_json, text_content, wj_method, wj_raised, wj_result, wj_pc, wj_out>>

ExtractNext == ExtractJsonFromResponse

ExtractSpec == ExtractInit /\ [][ExtractNext]_vars

\* ------------------------------------------------ the ..._with_json methods

\* What analyze_from_file returns: a failure with its error, or a success
\* with the response text.
AnalysisErrors ==
    {"NotAvailable", "PromptNotFound", "TimedOut", "ReturnCode", "Unexpected",
     "ExecutionError"}
AnalysisResults ==
    {Result(FALSE, <<>>, <<e>>) : e \in AnalysisErrors}
        \cup {Result(TRUE, <<t>>, <<>>) : t \in Responses}

\* A method that adds the two keys to a failed result too (the variant C37
\* is checked against).
with_json_Always(result) ==
    LET json_data == IF result.success
                       THEN extract_json_from_response(result.response[1])
                       ELSE None
    IN  [json_data |-> json_data, json_extraction_success |-> json_data # None] @@ result

\* if not result.get('success'): return result; otherwise
\* result['json_data'] = extract_json_from_response(result.get('response', ''))
\* and result['json_extraction_success'] = json_data is not None.
with_json(result) ==
    IF ~result.success THEN result
    ELSE LET json_data == extract_json_from_response(result.response[1])
         IN  [json_data |-> json_data, json_extraction_success |-> json_data # None]
                 @@ result

\* One of the two methods is called; the analysis under it returns any
\* result, or raises (analyze_from_file when prompt_path.exists() raises,
\* analyze_from_text when the prompt file cannot be written).
WithJsonInit ==
    /\ wj_method \in {"file", "text"}
    /\ wj_raised \in BOOLEAN
    /\ wj_result \in AnalysisResults
    /\ wj_raised => wj_result = Result(FALSE, <<>>, <<"Unexpected">>)
    /\ wj_pc = "call"
    /\ wj_out = NoResult
    /\ ExtractIdle
    /\ LogIdle
    /\ FindIdle
    /\ ReportIdle
    /\ WrapperIdle
    /\ RunAtRest

WithJsonReturn ==
    IF wj_raised
      THEN wj_pc' = "raised" /\ UNCHANGED wj_out
      ELSE wj_pc' = "returned" /\ wj_out' = with_json(wj_result)

AnalyzeFromFileWithJson ==
    /\ wj_pc = "call"
    /\ wj_method = "file"
    /\ WithJsonReturn
    /\ UNCHANGED <<not_json, text_content, ex_pc, parsed_json, wj_method, wj_raised,
                   wj_result>>

AnalyzeFromTextWithJson ==
    /\ wj_pc = "call"
    /\ wj_method = "text"
    /\ WithJsonReturn
    /\ UNCHANGED <<not_json, text_content, ex_pc, parsed_json, wj_method, wj_raised,
                   wj_result>>

WithJsonNext ==
    \/ AnalyzeFromFileWithJson
    \/ AnalyzeFromTextWithJson

WithJsonSpec == WithJsonInit /\ [][WithJsonNext]_vars

\* The threads of the program are scheduled fairly and the clock advances;
\* nothing obliges a child process to write or to exit.
FairSpec ==
    /\ Init
    /\ [][Next]_vars
    /\ WF_vars(MainStep)
    /\ \A u \in AllUnits : WF_vars(RunnerStep(u))
    /\ \A u \in AllUnits : WF_vars(DeadlinePasses(u))

\* ------------------------------------------------------------- properties

\* How many times the outcome of unit u is in the result set.
Collected(u) == Cardinality({i \in 1..Len(results) : results[i].unit = u})

\* run_integration_test has been called for u and has not returned.
InFlight(u) == rpc[u] \in {"config", "setup", "read", "bufwait", "verify"}

\* The collection loop of main has been left.
LoopEnded ==
    \/ pc \in {"shutdown", "report", "summary"}
    \/ pc = "exited" /\ nsub > 0

\* C1: without fail-fast, when the collection loop has ended the result set
\* holds exactly one outcome for every discovered unit.
C1_EveryUnitCollectedOnce ==
    (~failFast /\ LoopEnded) => \A u \in Units : Collected(u) = 1

\* C2: with fail-fast, once a failed outcome has been collected no unit that
\* has not started is started, and no step of the main thread changes the
\* state of a child process.
C2_NoStartAfterFailure ==
    [][(failFast /\ failed_tests # <<>>) =>
         /\ \A u \in AllUnits : fut[u] \in {"NEW", "PENDING"} => fut'[u] # "RUNNING"
         /\ (mainv' # mainv) => (child' = child)]_vars

\* C3: when the run has ended (no exception having left the loop), every unit
\* whose run_integration_test call was started has its outcome in the result
\* set exactly once.
C3_AttemptedCollectedOnce ==
    (pc = "exited" /\ ~raised) =>
        \A u \in Units : rpc[u] # "idle" => Collected(u) = 1

\* C4: when the run has ended (no exception having left the loop), every unit
\* cancelled by fail-fast has a line in the report that says it was cancelled.
C4_CancelledReported ==
    (pc = "exited" /\ ~raised) =>
        \A u \in Units : fut[u] = "CANCELLED" =>
            \E i \in 1..Len(report.lines) :
                /\ report.lines[i].unit = u
                /\ report.lines[i].status = "CANCELLED"

\* C5: fail-fast, one worker, two units, unit 1 has failed (with one worker
\* unit 2 was pending when it did): the result set holds no "Success" outcome
\* of unit 2, and the exit code of the run is 1.
C5_ScenarioD ==
    (failFast /\ workers = 1 /\ n = 2 /\ rpc[1] = "done" /\ ~outcome[1].success) =>
        /\ \A i \in 1..Len(results) :
              ~(results[i].unit = 2 /\ results[i].outcome.kind = "Success")
        /\ pc = "exited" => exitCode = 1

C7_OverrunIsTimeout ==
    \A u \in AllUnits :
        (rpc[u] = "done" /\ overran[u]
            /\ outcome[u].kind \notin {"StreamingError", "ExecutionError"})
        => outcome[u] = Outcome(FALSE, "Timeout", Timeout(desc[u]))

\* C8: once run_integration_test has returned a timeout outcome the child it
\* launched is not running.
C8_TimedOutChildStopped ==
    \A u \in AllUnits : outcome[u].kind = "Timeout" => child[u] = "exited"

\* C9: in stream mode, once the timeout has elapsed for a child that is
\* running and has written nothing, run_integration_test eventually returns.
C9_SilentChildTimesOut ==
    \A u \in AllUnits :
        (stream /\ rpc[u] = "read" /\ late[u] /\ child[u] = "alive"
            /\ emitted[u] = 0)
        ~> (rpc[u] = "done")

\* C10: no exception leaves run_integration_test, so future.result() never
\* raises in the collection loop.
C10_NoExceptionEscapes ==
    /\ ~raised
    /\ \A u \in AllUnits : outcome[u].kind # "Raised"

\* C11: a unit whose ExampleInfo.json is absent or is not valid JSON never has
\* a child process, its outcome is the failure "Missing ..." (absent) or
\* "Invalid JSON ..." (malformed), and it does not abort the run: the outcome
\* is collected like any other and no exception leaves the loop because of it.
C11_BadDescriptorFails ==
    \A u \in Units :
        desc[u].kind \in {"absent", "invalid"} =>
            /\ child[u] = "none"
            /\ rpc[u] \in {"idle", "config", "done"}
            /\ rpc[u] = "done" =>
                 outcome[u] = Outcome(FALSE, IF desc[u].kind = "absent" THEN "Missing"
                                             ELSE "InvalidJSON", 0)
            /\ u \in yielded =>
                 (raised => \E v \in yielded : outcome[v].kind = "Raised")
            /\ (u \in yielded /\ outcome[u].kind # "Raised") => Collected(u) = 1

\* C11 witness: a unit without descriptor has failed and been collected, and
\* a sibling has run its child and passed after it.
C11_SiblingRanOn ==
    \E u, v \in Units :
        /\ u # v
        /\ desc[u].kind = "absent"
        /\ Len(results) = 2
        /\ results[1].unit = u
        /\ results[2] = [unit |-> v, outcome |-> Outcome(TRUE, "Success", 0)]

\* The child of unit u ran to its end and its exit code was read: the descriptor
\* is valid, no file, pipe or spawn operation failed and no timeout was reported.
Completed(u) ==
    /\ rpc[u] = "done"
    /\ desc[u].kind = "ok"
    /\ ~faulted[u]
    /\ child[u] = "exited"
    /\ outcome[u].kind # "Timeout"

\* The declared success patterns of unit u that do not match its captured output.
Unmatched(u) ==
    {i \in DOMAIN desc[u].successRegex : ~Matches(desc[u].successRegex[i], logged[u])}

\* C12: a unit whose child completes without timeout with exit code N # 0 has
\* the outcome (false, "Exit code N"), whatever success patterns its
\* descriptor declares.
C12_NonZeroExitIsExitCode ==
    \A u \in Units :
        (Completed(u) /\ returncode[u] # 0) =>
            outcome[u] = Outcome(FALSE, "ExitCode", returncode[u])

\* C13: a unit whose child completes with exit code 0 while at least one
\* declared success pattern does not match the captured output fails (and its
\* message lists the unmatched patterns).
C13_UnmatchedPatternFails ==
    \A u \in Units :
        (Completed(u) /\ returncode[u] = 0 /\ Unmatched(u) # {}) =>
            ~outcome[u].success

C15_ExitZeroIffAllPassed ==
    pc = "exited" =>
        /\ exitCode \in {0, 1}
        /\ exitCode = 0 <=> (envOK /\ \A u \in Units : outcome[u].success)
        /\ (\E u \in Units : rpc[u] = "done" /\ ~outcome[u].success) => exitCode = 1

\* C15 witness: a run of two units has ended with exit code 1, the first unit
\* having passed and the second having failed with a non-zero exit code.
C15_OneFailedExitOne ==
    /\ pc = "exited"
    /\ exitCode = 1
    /\ n = 2
    /\ outcome[1] = Outcome(TRUE, "Success", 0)
    /\ outcome[2].kind = "ExitCode"
    /\ Len(results) = 2

\* Nothing of the run has started: no future was submitted, no Runner was
\* entered, no child was launched, nothing was collected or reported.
NothingRan ==
    /\ nsub = 0
    /\ results = <<>>
    /\ report = [lines |-> <<>>, details |-> <<>>]
    /\ \A u \in AllUnits : fut[u] = "NEW" /\ rpc[u] = "idle" /\ child[u] = "none"

\* C16: when the executor is absent or the java check fails or times out, the
\* run goes from validation straight to a non-zero exit: discovery is never
\* reached and no child process is ever launched.
C16_InvalidEnvironmentAborts ==
    (~jbang \/ java # "ok") =>
        /\ pc \in {"validate", "exited"}
        /\ pc = "exited" => exitCode # 0
        /\ NothingRan

\* C16 witness: the executor is present, the java check timed out, two units
\* would have been discovered, and the run has exited with code 1.
C16_JavaTimedOutExit ==
    /\ jbang
    /\ java = "timeout"
    /\ n = 2
    /\ pc = "exited"
    /\ exitCode = 1

\* C17: when the environment is valid and discovery returns no launcher, the
\* run ends after discovery with exit code 0: no pool is created, no unit is
\* executed and no report is generated.
C17_EmptyDiscoveryExitsZero ==
    (envOK /\ n = 0) =>
        /\ pc \in {"validate", "discover", "exited"}
        /\ pc = "exited" => exitCode = 0
        /\ NothingRan

\* C17 witness: a run with a valid environment and no launcher has exited.
C17_EmptyRunExited ==
    /\ envOK
    /\ n = 0
    /\ pc = "exited"
    /\ exitCode = 0

\* The report has a status line for unit u.
Reported(u) == \E i \in DOMAIN report.lines : report.lines[i].unit = u

\* C18: a run that passed validation and exits non-zero has generated, before
\* exiting, a report with a line for every unit of the run.
C18_FailingRunHasFullReport ==
    (pc = "exited" /\ exitCode # 0 /\ envOK) => \A u \in Units : Reported(u)

\* C20: when the Runner returns for a unit whose child completed without
\* timeout, the unit's log file holds every line the child wrote, in buffered
\* and in stream mode.
C20_LogHoldsEveryLine ==
    \A u \in Units : Completed(u) => logged[u] = emitted[u]

\* C19: within one invocation, two distinct units never have the same log
\* file path, in flat and in structured log mode.
C19_DistinctLogPaths ==
    \A u, v \in Units :
        (u # v /\ log_file[u] # <<>> /\ log_file[v] # <<>>) => log_file[u] # log_file[v]

\* A file of the tree is a launcher: a Run*.java file in a directory named
\* integration-tests.
IsLauncher(f) == f.parent = "integration-tests" /\ MatchesRunJava(f.name)

\* The module path of f contains the string flt, letter case ignored.
ModulePathContains(f, flt) ==
    \E i \in 1..(Len(module_path(f)) + 1) :
        /\ i + Len(flt) - 1 <= Len(module_path(f))
        /\ \A k \in 1..Len(flt) : Lower(module_path(f)[i + k - 1]) = Lower(flt[k])

\* C21: find_integration_tests returns exactly the launchers of the tree
\* whose module path contains the filter, letter case ignored (every launcher
\* when there is no filter), each once.
C21_FilterOnModulePath ==
    find_pc = "returned" =>
        /\ \A i, j \in DOMAIN found : i # j => found[i] # found[j]
        /\ {found[i] : i \in DOMAIN found} =
             {tree[i] : i \in {j \in DOMAIN tree :
                 /\ IsLauncher(tree[j])
                 /\ filter_pattern # <<>> => ModulePathContains(tree[j], filter_pattern[1])}}

\* C21 witness: with the filter "a", the launcher run/integration-tests/RunA.java
\* (its own name contains the filter, its module path "run" does not) is left
\* out while the other file of the tree is returned.
C21_NameMatchExcluded ==
    /\ find_pc = "returned"
    /\ filter_pattern = << <<"a">> >>
    /\ Len(tree) = 2
    /\ Len(found) = 1
    /\ \E i \in DOMAIN tree :
          /\ IsLauncher(tree[i])
          /\ tree[i].module = << <<"r", "u", "n">> >>
          /\ tree[i].name = <<"R", "u", "n", "A", ".java">>
          /\ \A j \in DOMAIN found : found[j] # tree[i]

\* Position of unit u in a sequence of units (0 when absent).
Position(seq, u) == IF \E i \in DOMAIN seq : seq[i] = u
                      THEN CHOOSE i \in DOMAIN seq : seq[i] = u ELSE 0

\* C22: the outcomes are appended to results in the order in which the units
\* completed: a unit that finished before another is not placed after it.
C22_ResultsInCompletionOrder ==
    \A i, j \in DOMAIN results :
        i < j => Position(finished, results[i].unit) < Position(finished, results[j].unit)

\* C23: in every report generate_report returns, passed plus failed equals the
\* total, and the average elapsed time is at most the maximum elapsed time.
C23_CountsAndAverage ==
    gr_pc = "returned" =>
        /\ gr_report.header.passed_tests + gr_report.header.failed_tests
             = gr_report.header.total_tests
        /\ gr_report.header.avg_time <= gr_report.header.max_time

\* C24: generate_report called with no outcome returns a report, it does not
\* raise.
C24_EmptyResultsNoRaise ==
    gr_results = <<>> => gr_pc # "raised"

\* C25: the report has one status line for every outcome, in order, and its
\* detail section lists exactly the failed outcomes with their messages; the
\* section is absent when no outcome failed.
C25_LinesAndDetails ==
    gr_pc = "returned" =>
        /\ Len(gr_report.lines) = Len(gr_results)
        /\ \A i \in DOMAIN gr_results :
              /\ gr_report.lines[i].unit = gr_results[i].unit
              /\ gr_report.lines[i].status = "PASS" <=> gr_results[i].outcome.success
              /\ gr_report.lines[i].status \in {"PASS", "FAIL"}
        /\ \A i \in DOMAIN gr_report.details : ~gr_report.details[i].outcome.success
        /\ \A i \in DOMAIN gr_results :
              ~gr_results[i].outcome.success =>
                  Cardinality({j \in DOMAIN gr_report.details :
                                  gr_report.details[j] = gr_results[i]}) = 1
        /\ (\A i \in DOMAIN gr_results : gr_results[i].outcome.success)
              => gr_report.details = <<>>

\* C25 witness: a report of three outcomes, one passed and two failed with
\* different messages.
C25_MixedReport ==
    /\ gr_pc = "returned"
    /\ Len(gr_results) = 3
    /\ gr_results[1].outcome.success
    /\ gr_results[2].outcome.kind = "ExitCode"
    /\ gr_results[3].outcome.kind = "Missing"
    /\ Len(gr_report.details) = 2

\* C26: generate_report writes a file exactly when a destination path is
\* given, the file holds the report it returns, and the report returned does
\* not depend on the destination.
C26_WritesIffDestination ==
    gr_pc = "returned" =>
        /\ written # <<>> <=> (output_file # <<>> /\ output_file[1] # "")
        /\ written # <<>> => written = <<gr_report>>
        /\ gr_report = [header |-> report_header(gr_results, compensated),
                        lines |-> generate_report(gr_results).lines,
                        details |-> generate_report(gr_results).details]

\* C26 witness: a report of a failed outcome was returned and written to
\* report.md.
C26_ReportWritten ==
    /\ gr_pc = "returned"
    /\ output_file = <<"report.md">>
    /\ written = <<gr_report>>
    /\ Len(gr_report.details) = 1

\* C27: when the CLI is unavailable, the prompt file does not exist, the
\* child timed out, the child exited non-zero or the JSON response has subtype
\* error_during_execution, analyze_from_file does not raise, it returns
\* success=False, response=None and an error; every failure it returns has
\* that shape, and it returns success=True only when the child exited with
\* code 0.
C27_FailureIsReturned ==
    LET failed == \/ ~cli_available
                  \/ prompt_exists = "no"
                  \/ w_child = "alive"
                  \/ (w_child = "exited" /\ w_returncode # 0)
                  \/ (w_child = "exited" /\ use_json_output /\ w_stdout = "error_subtype")
    IN  /\ failed => w_pc # "raised"
        /\ w_pc = "returned" =>
             /\ failed => ~w_result.success
             /\ ~w_result.success => (w_result.response = <<>> /\ w_result.error # <<>>)
             /\ w_result.success => (w_child = "exited" /\ w_returncode = 0)

\* C27 witness: the child exceeded the timeout and the failure was returned.
C27_TimedOutReturned ==
    /\ w_pc = "returned"
    /\ w_child = "alive"
    /\ w_result = Result(FALSE, <<>>, <<"TimedOut">>)

\* C28: with fail-fast and one worker, once some unit has finished with a
\* failed outcome no child process is launched for another unit.
C28_NoLaunchAfterFailure ==
    [][(failFast /\ workers = 1
          /\ \E v \in Units : rpc[v] = "done" /\ ~outcome[v].success) =>
         \A u \in Units : child[u] = "none" => child'[u] = "none"]_vars

\* C29: the timeout under which a child runs is a positive integer: the
\* descriptor's timeoutSec when present, 300 when absent.
C29_TimeoutPositive ==
    \A u \in Units :
        child[u] # "none" =>
            /\ Timeout(desc[u]) > 0
            /\ Timeout(desc[u]) = IF desc[u].timeoutSec = <<>> THEN DefaultTimeoutSec
                                  ELSE desc[u].timeoutSec[1]

\* C30: with structured logs every log file of the run lies in the one run
\* directory logs/run-<start time> and has no timestamp in its name; without,
\* every log file lies directly in logs/ and its name ends with the timestamp
\* of the second it was named in.  A run never has files of both layouts.
C30_OneLayoutPerRun ==
    \A u \in Units :
        log_file[u] # <<>> =>
            IF structured_logs
              THEN /\ log_file[u].dir = <<"logs", <<"run-", 0>>>>
                   /\ log_file[u].name =
                        <<launchers[u].module, "_", "integration-tests", ".log">>
              ELSE /\ log_file[u].dir = <<"logs">>
                   /\ \E t \in 0..clock :
                        log_file[u].name =
                          <<launchers[u].module, "_", "integration-tests", "_", t, ".log">>

\* C30 witness: with structured logs, two units of different modules named
\* their log files in different seconds.
C30_TwoFilesOneDirectory ==
    /\ structured_logs
    /\ clock = 1
    /\ n = 2
    /\ log_file[1] # <<>> /\ log_file[2] # <<>>
    /\ log_file[1].dir = log_file[2].dir
    /\ log_file[1].name # log_file[2].name

\* A child process that a run has launched and that has not ended.
Running(u) == child[u] \in {"alive", "terminating"}

\* C31: in a fail-fast run, once the pool has been left (report, summary,
\* exit code) no started unit is still in flight and no child process that
\* the run launched is still running.
C31_NoChildAtExit ==
    (failFast /\ pc \in {"report", "summary", "exited"}) =>
        \A u \in AllUnits : ~InFlight(u) /\ ~Running(u)

\* C32: in a fail-fast run the collected results hold at most one failed
\* outcome, and it is the last one collected.
C32_OneFailureLast ==
    failFast =>
        /\ Len(failed_tests) <= 1
        /\ \A i \in DOMAIN results :
              ~results[i].outcome.success => i = Len(results)

\* A fail-fast run of two units that has exited with a success collected
\* first and the failure that ended the loop second.
C32_SuccessThenFailure ==
    /\ failFast /\ pc = "exited"
    /\ Len(results) = 2
    /\ results[1].outcome.success
    /\ ~results[2].outcome.success

\* C33: a unit whose child ran to its end within the timeout has the verdict
\* that the other capture mode gives for the same descriptor and exit code.
C33_SameVerdictInBothModes ==
    \A u \in Units :
        Completed(u) => outcome[u] = verify(desc[u], returncode[u], ~stream)

\* The outcome kinds that run_integration_test returns.
OutcomeKinds ==
    {"Success", "Missing", "InvalidJSON", "Timeout", "ExitCode",
     "StreamingError", "ExecutionError"}

\* C34: every call of run_integration_test that has ended has returned one
\* outcome, of one of the listed kinds, and the outcome is a success exactly
\* when its message is "Success"; no call ends twice.
C34_OneWellFormedOutcome ==
    /\ \A u \in AllUnits :
          rpc[u] = "done" =>
              /\ outcome[u].kind \in OutcomeKinds
              /\ outcome[u].success <=> outcome[u].kind = "Success"
    /\ \A i, j \in DOMAIN finished : finished[i] = finished[j] => i = j

\* C35: without structured logs, a unit whose run no file, pipe or spawn
\* error disturbed and that did not time out has the verdict that the
\* orchestrator of src/scripts gives it.
C35_SameVerdictAsScripts ==
    ~structured_logs =>
        \A u \in Units :
            Completed(u) => outcome[u] = scripts_verify(desc[u], returncode[u], stream)

\* C38: when analyze_from_file has returned, the progress animation it started
\* has been stopped, and when the result is the timed-out failure the child
\* it started is no longer running.
C38_TimedOutChildGone ==
    w_pc = "returned" =>
        /\ w_progress # "running"
        /\ w_result.error = <<"TimedOut">> => w_child # "alive"

\* The strategies of extract_json_from_response whose candidate parses.
Parsing(text) == {k \in 1..3 : Parses(text, k)}

\* C36: extract_json_from_response returns None for an empty text and when no
\* strategy has a candidate that is valid JSON; otherwise it returns the
\* parse of the candidate of the first strategy, in the order fenced block,
\* line-based block, span of the braces, whose candidate is valid JSON.
C36_FirstValidStrategyWins ==
    ex_pc = "returned" =>
        IF text_content = <<>> \/ Parsing(text_content) = {}
          THEN parsed_json = None
          ELSE \E k \in Parsing(text_content) :
                  /\ \A j \in Parsing(text_content) : k <= j
                  /\ parsed_json = json_loads(Candidates(text_content)[k].str).value

\* The call has returned the parse of the fenced block for a text whose
\* line-based block parses to another value.
C36_FencedBlockPreferred ==
    /\ ex_pc = "returned"
    /\ Parses(text_content, 1) /\ Parses(text_content, 2)
    /\ parsed_json = json_loads(markdown_block(text_content).str).value
    /\ parsed_json # json_loads(direct_block(text_content).str).value

\* C37: a ..._with_json method returns a failed result of the analysis as it
\* is; to a successful one it adds json_data and json_extraction_success,
\* which is true exactly when json_data is not None, and changes no other key.
C37_KeysAddedOnSuccessOnly ==
    wj_pc = "returned" =>
        IF ~wj_result.success
          THEN wj_out = wj_result
          ELSE /\ DOMAIN wj_out =
                    DOMAIN wj_result \cup {"json_data", "json_extraction_success"}
               /\ \A key \in DOMAIN wj_result : wj_out[key] = wj_result[key]
               /\ wj_out.json_extraction_success <=> wj_out.json_data # None

\* analyze_from_text_with_json has returned a successful result with the
\* JSON value found in its response.
C37_JsonDataAdded ==
    /\ wj_pc = "returned"
    /\ wj_method = "text"
    /\ wj_result.success
    /\ "json_data" \in DOMAIN wj_out
    /\ wj_out.json_data = <<"{", "k", "1", "}">>
    /\ wj_out.json_extraction_success

====
